---- MODULE Spec2Model ----
(***************************************************************************)
(* Model of the McGill-Billboard loader (mirdata/billboard.py): the SALAMI *)
(* annotation parser, the section builder and the LAB chord loader.        *)
(*                                                                         *)
(* A Python str is a sequence of one-character strings, so that slicing,   *)
(* find, split, rstrip and the chord regular expression are computed       *)
(* character by character.  A Python dict is a function whose domain is    *)
(* the set of keys present.  None is the record [tag |-> "None"].          *)
(* Times are unsigned integer literals in the modelled files, so float()   *)
(* yields an integer or raises ValueError.                                 *)
(***************************************************************************)
EXTENDS Integers, Sequences, FiniteSets, TLC

VARIABLES fs, pc, call, ret, exc, opened

vars == <<fs, pc, call, ret, exc, opened>>

(***************************************************************************)
(* Python values                                                           *)
(***************************************************************************)
None == [tag |-> "None"]

Some(v) == [tag |-> "Some", v |-> v]

IsNone(x) == x.tag = "None"

EmptyDict == [k \in {} |-> None]

Get(d, k, default) == IF k \in DOMAIN d THEN d[k] ELSE default

Put(d, k, v) == [x \in (DOMAIN d) \cup {k} |-> IF x = k THEN v ELSE d[x]]

(***************************************************************************)
(* str operations                                                          *)
(***************************************************************************)
Digits == {"0", "1", "2", "3", "4", "5", "6", "7", "8", "9"}

Whitespace == {" ", "\t", "\n"}

DigitVal(c) ==
  CASE c = "0" -> 0 [] c = "1" -> 1 [] c = "2" -> 2 [] c = "3" -> 3
    [] c = "4" -> 4 [] c = "5" -> 5 [] c = "6" -> 6 [] c = "7" -> 7
    [] c = "8" -> 8 [] c = "9" -> 9

\* s[k:] for a 0-based k >= 0
From(s, k) == SubSeq(s, k + 1, Len(s))

\* s[a:b] for 0-based 0 <= a <= b
Slice(s, a, b) == SubSeq(s, a + 1, IF b < Len(s) THEN b ELSE Len(s))

\* s.startswith(p)
StartsWith(s, p) == Len(s) >= Len(p) /\ SubSeq(s, 1, Len(p)) = p

\* s.find(p): 0-based index of the first occurrence of p in s, or -1
Find(s, p) ==
  LET hits == {i \in 0..(Len(s) - Len(p)) : SubSeq(s, i + 1, i + Len(p)) = p}
  IN  IF hits = {} THEN -1 ELSE CHOOSE i \in hits : \A j \in hits : i <= j

\* s.split(sep) for a non-empty separator
RECURSIVE Split(_, _)
Split(s, sep) ==
  LET at == Find(s, sep)
  IN  IF at < 0 THEN <<s>>
      ELSE <<Slice(s, 0, at)>> \o Split(From(s, at + Len(sep)), sep)

\* s.rstrip()
RECURSIVE Rstrip(_)
Rstrip(s) ==
  IF s # <<>> /\ s[Len(s)] \in Whitespace THEN Rstrip(SubSeq(s, 1, Len(s) - 1))
  ELSE s

\* s.strip(), as float() applies it to its argument
RECURSIVE Lstrip(_)
Lstrip(s) == IF s # <<>> /\ s[1] \in Whitespace THEN Lstrip(Tail(s)) ELSE s

RECURSIVE DecimalValue(_)
DecimalValue(s) ==
  IF s = <<>> THEN 0
  ELSE 10 * DecimalValue(SubSeq(s, 1, Len(s) - 1)) + DigitVal(s[Len(s)])

\* float(s): [ok |-> TRUE, val |-> n], or [ok |-> FALSE] for ValueError
ParseFloat(s) ==
  LET t == Rstrip(Lstrip(s))
  IN  IF t # <<>> /\ \A i \in 1..Len(t) : t[i] \in Digits
      THEN [ok |-> TRUE, val |-> DecimalValue(t)]
      ELSE [ok |-> FALSE]

\* for l in f: the lines of the file, each with its line terminator
RECURSIVE FileLines(_)
FileLines(content) ==
  LET at == Find(content, <<"\n">>)
  IN  IF content = <<>> THEN <<>>
      ELSE IF at < 0 THEN <<content>>
      ELSE <<Slice(content, 0, at + 1)>> \o FileLines(From(content, at + 1))

\* re.findall(r"(?=\| (.*?) \|)", s): at every position where "| " is
\* followed, after the shortest run of characters, by " |", that run
ChordClose(s, p) ==
  {q \in (p + 2)..(Len(s) - 1) :
      /\ s[q] = " " /\ s[q + 1] = "|"
      /\ \A r \in (p + 2)..(q - 1) : s[r] # "\n"}

ChordMatchAt(s, p) ==
  /\ p + 1 <= Len(s)
  /\ s[p] = "|" /\ s[p + 1] = " "
  /\ ChordClose(s, p) # {}

ChordGroupAt(s, p) ==
  LET q == CHOOSE q \in ChordClose(s, p) : \A r \in ChordClose(s, p) : q <= r
  IN  SubSeq(s, p + 2, q - 1)

RECURSIVE FindAllFrom(_, _)
FindAllFrom(s, p) ==
  IF p > Len(s) THEN <<>>
  ELSE (IF ChordMatchAt(s, p) THEN <<ChordGroupAt(s, p)>> ELSE <<>>)
         \o FindAllFrom(s, p + 1)

FindAllChords(s) == FindAllFrom(s, 1)

(***************************************************************************)
(* The file system and the outcome of a call                               *)
(***************************************************************************)
Paths == {"track.txt"}

Absent == [exists |-> FALSE]

File(content) == [exists |-> TRUE, content |-> content]

\* os.path.exists(path) for a path that is not None
Exists(files, path) == files[path.v].exists

\* open(path).read(): TypeError for None, FileNotFoundError for a missing
\* file, else the text of the file
Read(files, path) ==
  IF IsNone(path) THEN [exc |-> "TypeError"]
  ELSE IF ~Exists(files, path) THEN [exc |-> "FileNotFoundError"]
  ELSE [exc |-> "none", content |-> files[path.v].content]

NoValue == [tag |-> "NoValue"]

\* a call's outcome: the value returned or the exception raised, and the
\* files it opened
Returned(v, files) == [exc |-> "none", ret |-> v, opened |-> files]

Raised(e, files) == [exc |-> e, ret |-> NoValue, opened |-> files]

(***************************************************************************)
(* _parse_salami_metadata and _parse_salami                                *)
(***************************************************************************)
KeyTitle == <<"t", "i", "t", "l", "e", ":">>

KeyArtist == <<"a", "r", "t", "i", "s", "t", ":">>

KeyMetre == <<"m", "e", "t", "r", "e", ":">>

KeyTonic == <<"t", "o", "n", "i", "c", ":">>

KeyOffset == 2

TitleOffset == 9

ArtistOffset == 10

MetreOffset == 9

TonicOffset == 9

\* s = open(fn).read().split("\n")
ReadLines(content) == Split(content, <<"\n">>)

\* the four ifs under "if x.startswith('#')", applied one after the other
HeaderTitle(o, x) ==
  IF StartsWith(From(x, KeyOffset), KeyTitle)
  THEN Put(o, "title", From(x, TitleOffset)) ELSE o

\* Variant: the artist is cut at the offset of the title
HeaderArtist_TitleOffset(o, x) ==
  IF StartsWith(From(x, KeyOffset), KeyArtist)
  THEN Put(o, "artist", From(x, TitleOffset)) ELSE o

HeaderArtist(o, x) ==
  IF StartsWith(From(x, KeyOffset), KeyArtist)
  THEN Put(o, "artist", From(x, ArtistOffset)) ELSE o

HeaderMetre(o, x) ==
  IF StartsWith(From(x, KeyOffset), KeyMetre)
  THEN Put(o, "meter", Get(o, "meter", <<>>) \o <<From(x, MetreOffset)>>) ELSE o

HeaderTonic(o, x) ==
  IF StartsWith(From(x, KeyOffset), KeyTonic)
  THEN Put(o, "tonic", Get(o, "tonic", <<>>) \o <<From(x, TonicOffset)>>) ELSE o

HeaderLine(o, x) == HeaderTonic(HeaderMetre(HeaderArtist(HeaderTitle(o, x), x), x), x)

\* Variant: the loop goes on past lines that do not start with '#'
RECURSIVE MetadataLoop_NoBreak(_, _, _)
MetadataLoop_NoBreak(s, k, o) ==
  IF k > Len(s) THEN o
  ELSE MetadataLoop_NoBreak(s, k + 1,
         IF StartsWith(s[k], <<"#">>) THEN HeaderLine(o, s[k]) ELSE o)

\* the loop of _parse_salami_metadata from line k on: it breaks at the
\* first line that does not start with '#'
RECURSIVE MetadataLoop(_, _, _)
MetadataLoop(s, k, o) ==
  IF k > Len(s) THEN o
  ELSE IF StartsWith(s[k], <<"#">>) THEN MetadataLoop(s, k + 1, HeaderLine(o, s[k]))
  ELSE o

_parse_salami_metadata(files, fn) ==
  LET f == Read(files, fn)
  IN  IF f.exc # "none" THEN Raised(f.exc, <<>>)
      ELSE Returned([tag |-> "dict",
                     v |-> MetadataLoop(ReadLines(f.content), 1, EmptyDict)],
                    <<fn.v>>)

\* the body of "for i in items" for one item
EventSection(event, i) ==
  LET section == Split(i, <<"|">>)
  IN  IF Len(section) = 1
         /\ ~(\E n \in 1..Len(section) : section[n] \in {<<"(">>, <<")">>})
      THEN Put(event, "section", section[1]) ELSE event

\* Variant: the notes are replaced, as the chords are
EventChords_NotesReplaced(event, i) ==
  LET chords == FindAllChords(i)
  IN  IF Len(chords) > 0
      THEN Put(event, "chords", chords)
      ELSE Put(event, "notes", <<i>>)

EventChords(event, i) ==
  LET chords == FindAllChords(i)
  IN  IF Len(chords) > 0
      THEN Put(event, "chords", chords)
      ELSE Put(event, "notes", Get(event, "notes", <<>>) \o <<i>>)

EventItem(event, i) == EventChords(EventSection(event, i), i)

RECURSIVE EventItems(_, _, _)
EventItems(event, items, n) ==
  IF n > Len(items) THEN event
  ELSE EventItems(EventItem(event, items[n]), items, n + 1)

\* the event of a data line x whose first tab is at 0-based index spot > 0
\* and whose time text parsed to time
DataEvent(x, spot, time) ==
  EventItems(Put(EmptyDict, "time", time), Split(From(x, spot + 1), <<",", " ">>), 1)

\* Variant: a line whose time does not parse is skipped
SalamiLine_SkipBadTime(o, x) ==
  IF StartsWith(x, <<"#">>) THEN [exc |-> "none", o |-> HeaderLine(o, x)]
  ELSE IF Len(x) > 1 THEN
    LET spot == Find(x, <<"\t">>)
        time == ParseFloat(Slice(x, 0, spot))
    IN  IF spot > 0 /\ time.ok
        THEN [exc |-> "none",
              o |-> Put(o, "events",
                        Get(o, "events", <<>>) \o <<DataEvent(x, spot, time.val)>>)]
        ELSE [exc |-> "none", o |-> o]
  ELSE [exc |-> "none", o |-> o]

\* Variant: a time that does not parse is recorded as 0
SalamiLine_DefaultTime(o, x) ==
  IF StartsWith(x, <<"#">>) THEN [exc |-> "none", o |-> HeaderLine(o, x)]
  ELSE IF Len(x) > 1 THEN
    LET spot == Find(x, <<"\t">>)
        time == ParseFloat(Slice(x, 0, spot))
    IN  IF spot > 0
        THEN [exc |-> "none",
              o |-> Put(o, "events",
                        Get(o, "events", <<>>)
                          \o <<DataEvent(x, spot, IF time.ok THEN time.val ELSE 0)>>)]
        ELSE [exc |-> "none", o |-> o]
  ELSE [exc |-> "none", o |-> o]

\* Variant: the event replaces the list of events instead of joining it
SalamiLine_EventsReplaced(o, x) ==
  IF StartsWith(x, <<"#">>) THEN [exc |-> "none", o |-> HeaderLine(o, x)]
  ELSE IF Len(x) > 1 THEN
    LET spot == Find(x, <<"\t">>)
        time == ParseFloat(Slice(x, 0, spot))
    IN  IF spot > 0 THEN
          IF time.ok
          THEN [exc |-> "none",
                o |-> Put(o, "events", <<DataEvent(x, spot, time.val)>>)]
          ELSE [exc |-> "ValueError", o |-> o]
        ELSE [exc |-> "none", o |-> o]
  ELSE [exc |-> "none", o |-> o]

\* one iteration of the loop of _parse_salami:
\* [exc |-> "none", o |-> o'] or [exc |-> "ValueError", o |-> o]
SalamiLine(o, x) ==
  IF StartsWith(x, <<"#">>) THEN [exc |-> "none", o |-> HeaderLine(o, x)]
  ELSE IF Len(x) > 1 THEN
    LET spot == Find(x, <<"\t">>)
        time == ParseFloat(Slice(x, 0, spot))
    IN  IF spot > 0 THEN
          IF time.ok
          THEN [exc |-> "none",
                o |-> Put(o, "events",
                          Get(o, "events", <<>>) \o <<DataEvent(x, spot, time.val)>>)]
          ELSE [exc |-> "ValueError", o |-> o]
        ELSE [exc |-> "none", o |-> o]
  ELSE [exc |-> "none", o |-> o]

RECURSIVE SalamiLoop(_, _, _)
SalamiLoop(s, k, o) ==
  IF k > Len(s) THEN [exc |-> "none", o |-> o]
  ELSE LET r == SalamiLine(o, s[k])
       IN  IF r.exc # "none" THEN r ELSE SalamiLoop(s, k + 1, r.o)

_parse_salami(files, fn) ==
  LET f == Read(files, fn)
      r == SalamiLoop(ReadLines(f.content), 1, EmptyDict)
  IN  IF f.exc # "none" THEN Raised(f.exc, <<>>)
      ELSE IF r.exc # "none" THEN Raised(r.exc, <<fn.v>>)
      ELSE Returned([tag |-> "dict", v |-> r.o], <<fn.v>>)

(***************************************************************************)
(* _timed_sections                                                         *)
(***************************************************************************)
\* Variant: the lookup past the last event wraps to the first event
EventDt_WrapAround(events, i) ==
  IF i + 1 <= Len(events) THEN events[i + 1]["time"] - events[i]["time"]
  ELSE events[1]["time"] - events[i]["time"]

\* dt: the IndexError of the lookup past the last event is caught
EventDt(events, i) ==
  IF i + 1 <= Len(events) THEN events[i + 1]["time"] - events[i]["time"] ELSE 0

\* Variant: a single note token is kept as a label of its own
EventSections_Singleton(e) ==
  LET notes == Get(e, "notes", <<>>)
  IN  IF Len(notes) > 0
      THEN <<IF Len(notes) > 1 THEN Some(<<notes[1], notes[2]>>)
             ELSE Some(<<notes[1], notes[1]>>)>>
      ELSE <<>>

\* the list "sections" built for event e: empty, [None] or [(notes[0], notes[1])]
EventSections(e) ==
  LET notes == Get(e, "notes", <<>>)
  IN  IF Len(notes) > 0
      THEN <<IF Len(notes) > 1 THEN Some(<<notes[1], notes[2]>>) ELSE None>>
      ELSE <<>>

\* the records appended for event i; len(sections) is 1 whenever it is not
\* 0, so the quotient dt / float(len(sections)) is exact
EventRecords(events, i) ==
  LET sections == EventSections(events[i])
      seconds_per_chord == EventDt(events, i) \div Len(sections)
  IN  [j \in 1..Len(sections) |->
         [time |-> events[i]["time"] + (j - 1) * seconds_per_chord,
          section |-> sections[j],
          length |-> seconds_per_chord]]

RECURSIVE TimedLoop(_, _)
TimedLoop(events, i) ==
  IF i > Len(events) THEN <<>>
  ELSE EventRecords(events, i) \o TimedLoop(events, i + 1)

\* [exc |-> "none", v |-> list] or [exc |-> "KeyError"] (parsed["events"])
_timed_sections(parsed) ==
  IF "events" \in DOMAIN parsed
  THEN [exc |-> "none", v |-> TimedLoop(parsed["events"], 1)]
  ELSE [exc |-> "KeyError"]

(***************************************************************************)
(* _load_sections and _load_chords                                         *)
(***************************************************************************)
\* timed_sections_clean
CleanSections(timed_sections) ==
  SelectSeq(timed_sections, LAMBDA ts : ~IsNone(ts.section))

\* Variant: a section ends where its own record's length says
SectionEnd_OwnLength(timed_sections, clean, idx) ==
  clean[idx].time + clean[idx].length

\* Variant: the last section ends at the first record, not the last
SectionEnd_SongStart(timed_sections, clean, idx) ==
  IF idx < Len(clean) THEN clean[idx + 1].time
  ELSE timed_sections[1].time

\* the end time appended for timed_sections_clean[idx] (idx from 1)
SectionEnd(timed_sections, clean, idx) ==
  IF idx < Len(clean) THEN clean[idx + 1].time
  ELSE timed_sections[Len(timed_sections)].time

SectionData(timed_sections) ==
  LET clean == CleanSections(timed_sections)
  IN  [tag |-> "SectionData",
       intervals |-> [idx \in 1..Len(clean) |->
                        <<clean[idx].time, SectionEnd(timed_sections, clean, idx)>>],
       labels |-> [idx \in 1..Len(clean) |-> clean[idx].section.v]]

\* sections_path is None or not os.path.exists(sections_path)
NoSectionsPath(files, sections_path) ==
  IsNone(sections_path) \/ ~Exists(files, sections_path)

_load_sections(files, sections_path) ==
  IF NoSectionsPath(files, sections_path) THEN Returned(None, <<>>)
  ELSE LET salami == _parse_salami(files, sections_path)
           timed == _timed_sections(salami.ret.v)
       IN  IF salami.exc # "none" THEN salami
           ELSE IF timed.exc # "none" THEN Raised(timed.exc, salami.opened)
           ELSE Returned(SectionData(timed.v), salami.opened)

\* Variant: a line whose label is the sustain marker is passed over
LabLine_DropSustain(line) ==
  LET l == Rstrip(line)
      f == Split(l, <<"\t">>)
  IN  IF l = <<>> THEN [skip |-> TRUE, ok |-> TRUE]
      ELSE IF Len(f) # 3 \/ ~ParseFloat(f[1]).ok \/ ~ParseFloat(f[2]).ok
           THEN [skip |-> FALSE, ok |-> FALSE]
      ELSE IF f[3] = <<".">> THEN [skip |-> TRUE, ok |-> TRUE]
      ELSE [skip |-> FALSE, ok |-> TRUE,
            start |-> ParseFloat(f[1]).val, end |-> ParseFloat(f[2]).val,
            label |-> f[3]]

\* Variant: the interval of a line ends where it starts
LabLine_ZeroLength(line) ==
  LET l == Rstrip(line)
      f == Split(l, <<"\t">>)
  IN  IF l = <<>> THEN [skip |-> TRUE, ok |-> TRUE]
      ELSE IF Len(f) # 3 \/ ~ParseFloat(f[1]).ok \/ ~ParseFloat(f[2]).ok
           THEN [skip |-> FALSE, ok |-> FALSE]
      ELSE [skip |-> FALSE, ok |-> TRUE,
            start |-> ParseFloat(f[1]).val, end |-> ParseFloat(f[1]).val,
            label |-> f[3]]

\* Variant: a line that does not have three fields is passed over
LabLine_SkipMalformed(line) ==
  LET l == Rstrip(line)
      f == Split(l, <<"\t">>)
  IN  IF l = <<>> \/ Len(f) # 3 THEN [skip |-> TRUE, ok |-> TRUE]
      ELSE IF ~ParseFloat(f[1]).ok \/ ~ParseFloat(f[2]).ok
           THEN [skip |-> FALSE, ok |-> FALSE]
      ELSE [skip |-> FALSE, ok |-> TRUE,
            start |-> ParseFloat(f[1]).val, end |-> ParseFloat(f[2]).val,
            label |-> f[3]]

\* one line of a LAB file: [skip |-> TRUE], [skip |-> FALSE, ok |-> FALSE]
\* (ValueError) or the parsed row
LabLine(line) ==
  LET l == Rstrip(line)
      f == Split(l, <<"\t">>)
  IN  IF l = <<>> THEN [skip |-> TRUE, ok |-> TRUE]
      ELSE IF Len(f) # 3 THEN [skip |-> FALSE, ok |-> FALSE]
      ELSE IF ~ParseFloat(f[1]).ok \/ ~ParseFloat(f[2]).ok
           THEN [skip |-> FALSE, ok |-> FALSE]
      ELSE [skip |-> FALSE, ok |-> TRUE,
            start |-> ParseFloat(f[1]).val, end |-> ParseFloat(f[2]).val,
            label |-> f[3]]

RECURSIVE LabLoop(_, _, _, _)
LabLoop(lines, k, intervals, chords) ==
  IF k > Len(lines)
  THEN [exc |-> "none", intervals |-> intervals, chords |-> chords]
  ELSE LET r == LabLine(lines[k])
       IN  IF r.skip THEN LabLoop(lines, k + 1, intervals, chords)
           ELSE IF ~r.ok THEN [exc |-> "ValueError"]
           ELSE LabLoop(lines, k + 1, intervals \o <<<<r.start, r.end>>>>,
                        chords \o <<r.label>>)

\* Variant: only a None path is tested, not the existence of the file
NoChordsPath_NoneOnly(files, path) == IsNone(path)

\* path is None or not os.path.exists(path)
NoChordsPath(files, path) == IsNone(path) \/ ~Exists(files, path)

_load_chords(files, path) ==
  IF NoChordsPath(files, path) THEN Returned(None, <<>>)
  ELSE LET f == Read(files, path)
           r == LabLoop(FileLines(f.content), 1, <<>>, <<>>)
       IN  IF f.exc # "none" THEN Raised(f.exc, <<>>)
           ELSE IF r.exc # "none" THEN Raised(r.exc, <<path.v>>)
           ELSE Returned([tag |-> "ChordData", intervals |-> r.intervals,
                          labels |-> r.chords], <<path.v>>)

(***************************************************************************)
(* The annotation files of the model                                       *)
(***************************************************************************)
MaxLines == 3

LTitle == <<"#", " ", "t", "i", "t", "l", "e", ":", " ", "T">>

LTitleAgain == <<"#", " ", "t", "i", "t", "l", "e", ":", " ", "U">>

LArtist == <<"#", " ", "a", "r", "t", "i", "s", "t", ":", " ", "R">>

LMetre == <<"#", " ", "m", "e", "t", "r", "e", ":", " ", "4">>

LTonic == <<"#", " ", "t", "o", "n", "i", "c", ":", " ", "C">>

LBlank == <<>>

\* 1<TAB>A, i
LSection == <<"1", "\t", "A", ",", " ", "i">>

\* 2<TAB>B, v, | D |, z
LThreeNotes ==
  <<"2", "\t", "B", ",", " ", "v", ",", " ", "|", " ", "D", " ", "|", ",", " ", "z">>

\* 3<TAB>Z, | C | D |
LNoteChords == <<"3", "\t", "Z", ",", " ", "|", " ", "C", " ", "|", " ", "D", " ", "|">>

\* 4<TAB>| C |, | . |
LTwoChordItems == <<"4", "\t", "|", " ", "C", " ", "|", ",", " ", "|", " ", ".", " ", "|">>

\* x<TAB>A, i
LBadTime == <<"x", "\t", "A", ",", " ", "i">>

\* ab
LNoTab == <<"a", "b">>

\* <TAB>A
LTabFirst == <<"\t", "A">>

\* 0<TAB>5<TAB>C
LLab == <<"0", "\t", "5", "\t", "C">>

\* 5<TAB>9<TAB>.
LLabSustain == <<"5", "\t", "9", "\t", ".">>

\* #<TAB>A
LHashTab == <<"#", "\t", "A">>

LineSet ==
  {LTitle, LTitleAgain, LArtist, LMetre, LTonic, LBlank, LSection, LThreeNotes, LNoteChords,
   LTwoChordItems, LBadTime, LNoTab, LTabFirst, LLab, LHashTab}

RECURSIVE Join(_)
Join(lines) ==
  IF Len(lines) = 1 THEN lines[1]
  ELSE lines[1] \o <<"\n">> \o Join(Tail(lines))

Contents == {Join(ls) : ls \in UNION {[1..n -> LineSet] : n \in 1..MaxLines}}

(***************************************************************************)
(* The state machine: a file system and one call on it                     *)
(***************************************************************************)
PathArgs == {None} \cup {Some(p) : p \in Paths}

Init ==
  /\ fs \in {[p \in Paths |-> Absent]} \cup {[p \in Paths |-> File(c)] : c \in Contents}
  /\ pc = "idle"
  /\ call = [fn |-> "none"]
  /\ ret = NoValue
  /\ exc = "none"
  /\ opened = <<>>

Finish(fn, arg, r) ==
  /\ pc' = "done"
  /\ call' = [fn |-> fn, arg |-> arg]
  /\ ret' = r.ret
  /\ exc' = r.exc
  /\ opened' = r.opened
  /\ UNCHANGED fs

ParseSalamiMetadata ==
  /\ pc = "idle"
  /\ \E p \in Paths :
       Finish("_parse_salami_metadata", Some(p), _parse_salami_metadata(fs, Some(p)))

ParseSalami ==
  /\ pc = "idle"
  /\ \E p \in Paths : Finish("_parse_salami", Some(p), _parse_salami(fs, Some(p)))

\* _timed_sections applied to the result of a _parse_salami call
TimedSections ==
  /\ pc = "done"
  /\ call.fn = "_parse_salami"
  /\ exc = "none"
  /\ LET r == _timed_sections(ret.v)
     IN  Finish("_timed_sections", call.arg,
                IF r.exc = "none" THEN Returned([tag |-> "list", v |-> r.v], <<>>)
                ELSE Raised(r.exc, <<>>))

LoadSections ==
  /\ pc = "idle"
  /\ \E a \in PathArgs : Finish("_load_sections", a, _load_sections(fs, a))

LoadChords ==
  /\ pc = "idle"
  /\ \E a \in PathArgs : Finish("_load_chords", a, _load_chords(fs, a))

Next ==
  \/ ParseSalamiMetadata
  \/ ParseSalami
  \/ TimedSections
  \/ LoadSections
  \/ LoadChords

Spec == Init /\ [][Next]_vars

(***************************************************************************)
(* Vocabulary of the properties                                            *)
(***************************************************************************)
Called(fn) == pc = "done" /\ call.fn = fn

\* the call was made on a path that names an existing file
OnFile == ~IsNone(call.arg) /\ fs[call.arg.v].exists

TheLines == ReadLines(fs[call.arg.v].content)

SectionsReturned ==
  Called("_load_sections") /\ exc = "none" /\ ret.tag = "SectionData"

\* a line that starts an event: no '#', longer than one character, first
\* tab at index >= 1
IsDataLine(x) ==
  /\ ~StartsWith(x, <<"#">>)
  /\ Len(x) > 1
  /\ \E t \in 2..Len(x) : x[t] = "\t" /\ \A u \in 1..(t - 1) : x[u] # "\t"

TimeText(x) == SubSeq(x, 1, (CHOOSE t \in 1..Len(x) : x[t] = "\t") - 1)

HasBadTime(lines) ==
  \E k \in 1..Len(lines) : IsDataLine(lines[k]) /\ ~ParseFloat(TimeText(lines[k])).ok

DataLines(lines) == SelectSeq(lines, IsDataLine)

\* the ', '-separated segments of a data line
Segments(x) == Split(SubSeq(x, Len(TimeText(x)) + 2, Len(x)), <<",", " ">>)

\* the events of the file, as _parse_salami records them
FileEvents == Get(_parse_salami(fs, call.arg).ret.v, "events", <<>>)

NotesOf(e) == Get(e, "notes", <<>>)

HeaderKeys == {"title", "artist", "meter", "tonic"}

HeaderPart(o) == [k \in (DOMAIN o) \cap HeaderKeys |-> o[k]]

IsHashLine(x) == x # <<>> /\ x[1] = "#"

IsBlankLine(x) == \A i \in 1..Len(x) : x[i] \in Whitespace

\* the lines before the first line that is neither blank nor '#'-prefixed
BeforeFirstContent(lines) ==
  SubSeq(lines, 1,
         CHOOSE n \in 0..Len(lines) :
           /\ \A k \in 1..n : IsHashLine(lines[k]) \/ IsBlankLine(lines[k])
           /\ n < Len(lines) =>
                ~(IsHashLine(lines[n + 1]) \/ IsBlankLine(lines[n + 1])))

\* the '#' lines that open the file, up to the first line of another kind
LeadingHashRun(lines) ==
  SubSeq(lines, 1,
         CHOOSE n \in 0..Len(lines) :
           /\ \A k \in 1..n : IsHashLine(lines[k])
           /\ n < Len(lines) => ~IsHashLine(lines[n + 1]))

\* the header fields that a sequence of '#' lines gives, taken in order
RECURSIVE HeaderFold(_, _)
HeaderFold(lines, o) ==
  IF lines = <<>> THEN o ELSE HeaderFold(Tail(lines), HeaderLine(o, Head(lines)))

HeaderOf(lines) == HeaderFold(SelectSeq(lines, IsHashLine), EmptyDict)

\* the lines x with x[2:].startswith(key)
KeyLines(lines, key) ==
  SelectSeq(lines, LAMBDA x : Len(x) >= 2 + Len(key) /\ SubSeq(x, 3, 2 + Len(key)) = key)

\* the text of x from 0-based offset n on
TextFrom(x, n) == [i \in 1..(Len(x) - n) |-> x[n + i]]

\* d[k] is the text from offset n of the last of lines, or absent if none
LastValue(d, k, lines, n) ==
  IF lines = <<>> THEN k \notin DOMAIN d
  ELSE k \in DOMAIN d /\ d[k] = TextFrom(lines[Len(lines)], n)

\* d[k] lists the texts from offset n of lines, or is absent if none
AllValues(d, k, lines, n) ==
  IF lines = <<>> THEN k \notin DOMAIN d
  ELSE k \in DOMAIN d /\ d[k] = [j \in 1..Len(lines) |-> TextFrom(lines[j], n)]

RECURSIVE Flatten(_)
Flatten(seqs) == IF seqs = <<>> THEN <<>> ELSE Head(seqs) \o Flatten(Tail(seqs))

HasChordMatch(i) == FindAllChords(i) # <<>>

HasNoChordMatch(i) == FindAllChords(i) = <<>>

\* a header parse (of either parser) that returned a dict for an existing file
Parsed(fn) == Called(fn) /\ OnFile /\ exc = "none"

ParsedEvents == Get(ret.v, "events", <<>>)

(***************************************************************************)
(* C1: whenever _load_sections returns a SectionData, each returned        *)
(* interval ends where the next one starts: end[i] = start[i+1] for every  *)
(* adjacent pair.                                                          *)
(***************************************************************************)
C1_SectionsContiguous ==
  SectionsReturned =>
    \A i \in 1..(Len(ret.intervals) - 1) :
      ret.intervals[i][2] = ret.intervals[i + 1][1]

\* three sections, of which the middle one follows an event left out
C1_Witness ==
  /\ SectionsReturned
  /\ Len(ret.intervals) >= 2
  /\ Len(FileEvents) > Len(ret.intervals)
  /\ ret.intervals[1][1] # ret.intervals[1][2]

(***************************************************************************)
(* C2: the labels returned by _load_sections are, in event order, the      *)
(* pairs (notes[0], notes[1]) of the events with two or more note tokens;  *)
(* later note tokens are dropped and an event with fewer than two note     *)
(* tokens gives neither an interval nor a label.                           *)
(***************************************************************************)
HasTwoNotes(e) == Len(NotesOf(e)) >= 2

C2_LabelsAreFirstTwoNotes ==
  SectionsReturned =>
    LET paired == SelectSeq(FileEvents, HasTwoNotes)
    IN  /\ Len(ret.labels) = Len(paired)
        /\ Len(ret.intervals) = Len(paired)
        /\ \A k \in 1..Len(paired) :
             ret.labels[k] = <<NotesOf(paired[k])[1], NotesOf(paired[k])[2]>>

\* a file with a three-note event, a one-note event and a returned label
C2_Witness ==
  /\ SectionsReturned
  /\ \E k \in 1..Len(FileEvents) : Len(NotesOf(FileEvents[k])) = 3
  /\ \E k \in 1..Len(FileEvents) : Len(NotesOf(FileEvents[k])) = 1
  /\ Len(ret.labels) >= 1

(***************************************************************************)
(* C3: _load_sections and _load_chords return None, raise nothing and open *)
(* no file when the path is None or names no existing file.                *)
(***************************************************************************)
C3_MissingPathGivesNone ==
  ((Called("_load_sections") \/ Called("_load_chords")) /\ ~OnFile) =>
    /\ exc = "none"
    /\ ret.tag = "None"
    /\ opened = <<>>

\* _load_chords was called on a path that is not None and does not exist
C3_Witness ==
  /\ Called("_load_chords")
  /\ ~IsNone(call.arg)
  /\ ~fs[call.arg.v].exists
  /\ ret.tag = "None"

(***************************************************************************)
(* C4: the last interval returned by _load_sections ends at the time of    *)
(* the last event (the last data line) of the file.                        *)
(***************************************************************************)
C4_LastSectionEndsAtLastEvent ==
  (SectionsReturned /\ Len(ret.intervals) >= 1) =>
    ret.intervals[Len(ret.intervals)][2] = FileEvents[Len(FileEvents)]["time"]

(***************************************************************************)
(* C5 as claimed: both parsers stop extracting header fields at the first  *)
(* line that is neither blank nor '#'-prefixed: the '#' lines before it    *)
(* (also those after a blank line) are extracted, those after it are not.  *)
(***************************************************************************)
C5_HeaderStopsAtFirstContentLine ==
  (Parsed("_parse_salami_metadata") \/ Parsed("_parse_salami")) =>
    HeaderPart(ret.v) = HeaderOf(BeforeFirstContent(TheLines))

(***************************************************************************)
(* C5 amended: _parse_salami_metadata stops at the first line that does    *)
(* not start with '#', a blank line included, so it extracts exactly the   *)
(* '#' lines that open the file; _parse_salami never stops, so it extracts *)
(* every '#' line of the file, wherever it stands.                         *)
(***************************************************************************)
C5_HeaderLinesExtracted ==
  /\ Parsed("_parse_salami_metadata") => ret.v = HeaderOf(LeadingHashRun(TheLines))
  /\ Parsed("_parse_salami") => HeaderPart(ret.v) = HeaderOf(TheLines)

\* _parse_salami_metadata on a file whose title follows a blank first line
C5_Witness ==
  /\ Parsed("_parse_salami_metadata")
  /\ Len(TheLines) >= 2
  /\ TheLines[1] = LBlank
  /\ TheLines[2] = LTitle
  /\ ret.v = EmptyDict

(***************************************************************************)
(* C6: header values are cut at fixed offsets: the title is the text from  *)
(* offset 9 of the last title line, the artist the text from offset 10 of  *)
(* the last artist line, and meter / tonic list the texts from offset 9 of *)
(* all metre / tonic lines in file order (over the '#' lines each parser   *)
(* extracts).                                                              *)
(***************************************************************************)
HeaderValuesOf(d, lines) ==
  /\ LastValue(d, "title", KeyLines(lines, KeyTitle), 9)
  /\ LastValue(d, "artist", KeyLines(lines, KeyArtist), 10)
  /\ AllValues(d, "meter", KeyLines(lines, KeyMetre), 9)
  /\ AllValues(d, "tonic", KeyLines(lines, KeyTonic), 9)

C6_HeaderOffsets ==
  /\ Parsed("_parse_salami_metadata") =>
       HeaderValuesOf(ret.v, LeadingHashRun(TheLines))
  /\ Parsed("_parse_salami") =>
       HeaderValuesOf(ret.v, SelectSeq(TheLines, IsHashLine))

\* '# title: T', '# title: U' and '# artist: R' give title U and artist R
C6_Witness ==
  /\ Parsed("_parse_salami")
  /\ TheLines = <<LTitle, LTitleAgain, LArtist>>
  /\ ret.v["title"] = <<"U">>
  /\ ret.v["artist"] = <<"R">>

(***************************************************************************)
(* C7: the chord tokens of an event are the matches of all the segments of *)
(* its line that have a match, in line order: a chord-bearing segment does *)
(* not discard the chord tokens of an earlier segment.                     *)
(***************************************************************************)
ChordsOfSegments(x) ==
  Flatten([n \in 1..Len(Segments(x)) |-> FindAllChords(Segments(x)[n])])

C7_ChordsOfAllSegments ==
  Parsed("_parse_salami") =>
    /\ Len(ParsedEvents) = Len(DataLines(TheLines))
    /\ \A k \in 1..Len(ParsedEvents) :
         Get(ParsedEvents[k], "chords", <<>>) = ChordsOfSegments(DataLines(TheLines)[k])

(***************************************************************************)
(* C8: the note tokens of an event are exactly the segments of its line    *)
(* that have no chord match, verbatim and in line order; a segment with a  *)
(* match adds nothing to them.                                             *)
(***************************************************************************)
C8_NotesAreNonChordSegments ==
  Parsed("_parse_salami") =>
    /\ Len(ParsedEvents) = Len(DataLines(TheLines))
    /\ \A k \in 1..Len(ParsedEvents) :
         LET notes == SelectSeq(Segments(DataLines(TheLines)[k]), HasNoChordMatch)
         IN  /\ NotesOf(ParsedEvents[k]) = notes
             /\ "notes" \in DOMAIN ParsedEvents[k] <=> notes # <<>>

\* an event with three notes around a chord segment
C8_Witness ==
  /\ Parsed("_parse_salami")
  /\ \E k \in 1..Len(ParsedEvents) :
       /\ Len(NotesOf(ParsedEvents[k])) = 3
       /\ "chords" \in DOMAIN ParsedEvents[k]
       /\ \E n \in 2..(Len(Segments(DataLines(TheLines)[k])) - 1) :
            HasChordMatch(Segments(DataLines(TheLines)[k])[n])

(***************************************************************************)
(* C9 as claimed: _parse_salami never raises on an existing file; a line   *)
(* whose text before the first tab is not a number is skipped and gives no *)
(* event.                                                                  *)
(***************************************************************************)
HasGoodTime(x) == IsDataLine(x) /\ ParseFloat(TimeText(x)).ok

C9_ParserIsTotal ==
  (Called("_parse_salami") /\ OnFile) =>
    /\ exc = "none"
    /\ Len(ParsedEvents) = Len(SelectSeq(TheLines, HasGoodTime))

(***************************************************************************)
(* C9 amended: on an existing file _parse_salami returns without raising   *)
(* exactly when no data line has a time text that is not a number, and     *)
(* raises ValueError otherwise; when it returns, the lines that are not    *)
(* data lines (no tab, tab first, at most one character) were skipped and  *)
(* every data line gave one event with its time.                           *)
(***************************************************************************)
C9_TotalButForBadTime ==
  (Called("_parse_salami") /\ OnFile) =>
    /\ exc \in {"none", "ValueError"}
    /\ exc = "none" <=> ~HasBadTime(TheLines)
    /\ exc = "none" =>
         /\ Len(ParsedEvents) = Len(DataLines(TheLines))
         /\ \A k \in 1..Len(ParsedEvents) :
              ParsedEvents[k]["time"] = ParseFloat(TimeText(DataLines(TheLines)[k])).val

\* a line without a tab and a line with the tab first, skipped around an event
C9_Witness ==
  /\ Parsed("_parse_salami")
  /\ \E k \in 1..Len(TheLines) : TheLines[k] = LNoTab
  /\ \E k \in 1..Len(TheLines) : TheLines[k] = LTabFirst
  /\ Len(ParsedEvents) = 1

(***************************************************************************)
(* C10: a data line whose text before the first tab is not a number is     *)
(* fatal: ValueError leaves _parse_salami and _load_sections, and no       *)
(* value (no event with a defaulted time, no section data) is returned.    *)
(***************************************************************************)
C10_BadTimeIsFatal ==
  ((Called("_parse_salami") \/ Called("_load_sections"))
     /\ OnFile /\ HasBadTime(TheLines)) =>
    /\ exc = "ValueError"
    /\ ret = NoValue

\* _load_sections raised on a file whose bad time follows a good section line
C10_Witness ==
  /\ Called("_load_sections")
  /\ OnFile
  /\ Len(TheLines) >= 2
  /\ TheLines[1] = LSection
  /\ TheLines[2] = LBadTime
  /\ exc = "ValueError"

(***************************************************************************)
(* C14: for an existing LAB file _load_chords returns one interval and one *)
(* label per non-blank line, in file order, as many rows as labels; blank  *)
(* lines give nothing, and a non-blank line that does not split into three *)
(* tab-separated fields makes the load fail with no partial result.        *)
(***************************************************************************)
LabFields(x) == Split(Rstrip(x), <<"\t">>)

IsLabRow(x) ==
  /\ Len(LabFields(x)) = 3
  /\ ParseFloat(LabFields(x)[1]).ok
  /\ ParseFloat(LabFields(x)[2]).ok

IsNotBlankLine(x) == ~IsBlankLine(x)

LabRows == SelectSeq(TheLines, IsNotBlankLine)

C14_OneRowPerLabLine ==
  (Called("_load_chords") /\ OnFile) =>
    LET rows == LabRows
    IN  IF \A k \in 1..Len(rows) : IsLabRow(rows[k])
        THEN /\ exc = "none"
             /\ ret.tag = "ChordData"
             /\ Len(ret.intervals) = Len(rows)
             /\ Len(ret.labels) = Len(rows)
             /\ \A k \in 1..Len(rows) :
                  LET fields == LabFields(rows[k])
                  IN  /\ ret.intervals[k] = <<ParseFloat(fields[1]).val,
                                              ParseFloat(fields[2]).val>>
                      /\ ret.labels[k] = fields[3]
        ELSE /\ exc = "ValueError"
             /\ ret = NoValue

\* two LAB lines around a blank line give two rows, in file order
C14_Witness ==
  /\ Called("_load_chords")
  /\ OnFile
  /\ TheLines = <<LLab, LBlank, LLab>>
  /\ ret.tag = "ChordData"
  /\ ret.intervals = <<<<0, 5>>, <<0, 5>>>>
  /\ ret.labels = <<<<"C">>, <<"C">>>>

HasNotes(ev, i) == NotesOf(ev[i]) # <<>>

NotedEvents(ev) == SelectSeq([i \in 1..Len(ev) |-> i], LAMBDA i : HasNotes(ev, i))

C18_OneRecordPerNotedEvent ==
  Called("_timed_sections") =>
    LET ev == FileEvents
    IN  /\ Len(ev) >= 1 => exc = "none"
        /\ exc = "none" =>
             LET noted == NotedEvents(ev)
             IN  /\ Len(ret.v) = Len(noted)
                 /\ \A k \in 1..Len(noted) :
                      /\ ret.v[k].time = ev[noted[k]]["time"]
                      /\ ret.v[k].length =
                           IF noted[k] < Len(ev)
                           THEN ev[noted[k] + 1]["time"] - ev[noted[k]]["time"]
                           ELSE 0

\* a single-event parse gives one record of length 0
C18_Witness ==
  /\ Called("_timed_sections")
  /\ exc = "none"
  /\ Len(FileEvents) = 1
  /\ Len(ret.v) = 1
  /\ ret.v[1].length = 0
  /\ ret.v[1].time > 0

(***************************************************************************)
(* C19: when the event times strictly increase in file order, every        *)
(* interval returned by _load_sections but the last has end > start, the   *)
(* last has end >= start, and the starts strictly increase.                *)
(***************************************************************************)
TimesIncrease(ev) ==
  \A i \in 1..(Len(ev) - 1) : ev[i]["time"] < ev[i + 1]["time"]

C19_SectionsHaveLength ==
  (SectionsReturned /\ TimesIncrease(FileEvents)) =>
    LET n == Len(ret.intervals)
    IN  /\ \A i \in 1..(n - 1) :
             /\ ret.intervals[i][2] > ret.intervals[i][1]
             /\ ret.intervals[i][1] < ret.intervals[i + 1][1]
        /\ n >= 1 => ret.intervals[n][2] >= ret.intervals[n][1]

\* two sections at increasing times, the closing one of length zero
C19_Witness ==
  /\ SectionsReturned
  /\ TimesIncrease(FileEvents)
  /\ Len(ret.intervals) = 2
  /\ ret.intervals[2][2] = ret.intervals[2][1]

(***************************************************************************)
(* C20: _load_sections on an existing file without any data line returns a *)
(* SectionData with no interval and no label, and raises nothing.          *)
(***************************************************************************)
C20_NoDataLineGivesEmptySections ==
  (Called("_load_sections") /\ OnFile /\ DataLines(TheLines) = <<>>) =>
    /\ exc = "none"
    /\ ret.tag = "SectionData"
    /\ ret.intervals = <<>>
    /\ ret.labels = <<>>

(***************************************************************************)
(* The Track: one SALAMI file and five LAB files                           *)
(***************************************************************************)
MaxTrackLines == 2

SalamiPath == "salami.txt"

\* the keys of Track.chords, in the order of the dict display
ChordKeys == <<"full", "majmin7", "majmin7inv", "majmin", "majmininv">>

\* lab_<key>_path
LabPath(key) == "lab_" \o key

LabPaths == {LabPath(ChordKeys[k]) : k \in 1..Len(ChordKeys)}

TrackPaths == {SalamiPath} \cup LabPaths

\* the dict display of Track.chords: the loads run in order, the first one
\* that raises ends the property
RECURSIVE TrackChordsLoop(_, _, _, _)
TrackChordsLoop(files, k, acc, seen) ==
  IF k > Len(ChordKeys) THEN Returned([tag |-> "dict", v |-> acc], seen)
  ELSE LET r == _load_chords(files, Some(LabPath(ChordKeys[k])))
       IN  IF r.exc # "none" THEN Raised(r.exc, seen \o r.opened)
           ELSE TrackChordsLoop(files, k + 1, Put(acc, ChordKeys[k], r.ret),
                                seen \o r.opened)

Track_chords(files) == TrackChordsLoop(files, 1, EmptyDict, <<>>)

Track_salami_metadata(files) == _parse_salami_metadata(files, Some(SalamiPath))

Track_sections(files) == _load_sections(files, Some(SalamiPath))

TrackSalamiLines == {LTitle, LSection, LNoteChords, LTwoChordItems}

TrackSalamiFiles ==
  {Absent} \cup
  {File(Join(ls)) : ls \in UNION {[1..n -> TrackSalamiLines] : n \in 1..MaxTrackLines}}

TrackLabFiles == {Absent, File(LLab), File(Join(<<LLab, LLabSustain>>))}

InitTrack ==
  /\ fs \in {[p \in TrackPaths |-> IF p = SalamiPath THEN s ELSE l[p]] :
               s \in TrackSalamiFiles, l \in [LabPaths -> TrackLabFiles]}
  /\ pc = "idle"
  /\ call = [fn |-> "none"]
  /\ ret = NoValue
  /\ exc = "none"
  /\ opened = <<>>

TrackChords ==
  /\ pc = "idle"
  /\ Finish("Track.chords", None, Track_chords(fs))

TrackSalamiMetadata ==
  /\ pc = "idle"
  /\ Finish("Track.salami_metadata", Some(SalamiPath), Track_salami_metadata(fs))

TrackSections ==
  /\ pc = "idle"
  /\ Finish("Track.sections", Some(SalamiPath), Track_sections(fs))

NextTrack ==
  \/ TrackChords
  \/ TrackSalamiMetadata
  \/ TrackSections

SpecTrack == InitTrack /\ [][NextTrack]_vars

(***************************************************************************)
(* Vocabulary of the Track properties                                      *)
(***************************************************************************)
SalamiExists == fs[SalamiPath].exists

\* the events of the track's SALAMI file, as _parse_salami records them
TrackEvents ==
  IF SalamiExists
  THEN Get(_parse_salami(fs, Some(SalamiPath)).ret.v, "events", <<>>)
  ELSE <<>>

ChordTokens(e) == Get(e, "chords", <<>>)

\* the chord tokens of the events from..Len(ev), in order
RECURSIVE SymbolsFrom(_, _)
SymbolsFrom(ev, from) ==
  IF from > Len(ev) THEN <<>>
  ELSE ChordTokens(ev[from]) \o SymbolsFrom(ev, from + 1)

\* every '.' replaced by the label emitted before it (prev = <<>>: none yet)
RECURSIVE ResolveSustain(_, _)
ResolveSustain(tokens, prev) ==
  IF tokens = <<>> THEN <<>>
  ELSE LET label == IF Head(tokens) = <<".">> /\ prev # <<>> THEN prev ELSE Head(tokens)
       IN  <<label>> \o ResolveSustain(Tail(tokens), label)

\* the number of chord tokens of the events before event i
SymbolsBefore(ev, i) == Len(SymbolsFrom(ev, 1)) - Len(SymbolsFrom(ev, i))

LabRowsOf(key) ==
  SelectSeq(ReadLines(fs[LabPath(key)].content), IsNotBlankLine)

AllLabsExist == \A p \in LabPaths : fs[p].exists

ChordsReturned == Called("Track.chords") /\ exc = "none" /\ ret.tag = "dict"

KeySet == {ChordKeys[k] : k \in 1..Len(ChordKeys)}

(***************************************************************************)
(* C11: Track.salami_metadata returns an empty or null result, and raises  *)
(* nothing, when the track's annotation file does not exist.               *)
(***************************************************************************)
C11_MissingFileGivesNoData ==
  (Called("Track.salami_metadata") /\ ~SalamiExists) =>
    /\ exc = "none"
    /\ \/ ret = None
       \/ ret = [tag |-> "dict", v |-> EmptyDict]

MaxMetaLines == 3

DataHomes == {"home"}

\* os.path.join(data_home, "billboard-2.0-index.csv")
MetadataPath(data_home) == data_home \o "/billboard-2.0-index.csv"

\* the key "data_home" of the returned dict
DataHomeKey ==
  <<"d", "a", "t", "a", "_", "h", "o", "m", "e">>

\* int(s): [ok |-> TRUE, val |-> n], or [ok |-> FALSE] for ValueError
ParseInt(s) ==
  LET t == Rstrip(Lstrip(s))
  IN  IF t # <<>> /\ \A i \in 1..Len(t) : t[i] \in Digits
      THEN [ok |-> TRUE, val |-> DecimalValue(t)]
      ELSE [ok |-> FALSE]

\* one row of csv.reader(fhandle, delimiter=","): [] for an empty line
CsvRow(line) ==
  LET l == IF line # <<>> /\ line[Len(line)] = "\n"
           THEN SubSeq(line, 1, Len(line) - 1) ELSE line
  IN  IF l = <<>> THEN <<>> ELSE Split(l, <<",">>)

CsvRows(content) == [k \in 1..Len(FileLines(content)) |-> CsvRow(FileLines(content)[k])]

\* next(reader, None): the first row, if there is one, is dropped
SkipHeader(rows) == IF rows = <<>> THEN rows ELSE Tail(rows)

IsNotEmptyRow(row) == row # <<>>

\* raw_data: the rows after the first that are not []
RawData(content) == SelectSeq(SkipHeader(CsvRows(content)), IsNotEmptyRow)

\* the positions of the rank fields: line[2], line[3], line[6], line[7]
RankFields == {2, 3, 6, 7}

LastField == 7

\* the first error of the dict display for one row, its fields read in the
\* order line[1] .. line[7]: IndexError past the end of the row, ValueError
\* from int() of a rank field that is not empty
RECURSIVE RowError(_, _)
RowError(line, k) ==
  IF k > LastField THEN "none"
  ELSE IF k >= Len(line) THEN "IndexError"
  ELSE IF k \in RankFields /\ line[k + 1] # <<>> /\ ~ParseInt(line[k + 1]).ok
       THEN "ValueError"
  ELSE RowError(line, k + 1)

\* Variant: an empty rank field counts as 0
RankField_ZeroWhenEmpty(field) ==
  IF field # <<>> THEN Some(ParseInt(field).val) ELSE Some(0)

\* int(line[k]) if line[k] else None
RankField(field) ==
  IF field # <<>> THEN Some(ParseInt(field).val) ELSE None

RowRecord(line) ==
  [chart_date |-> line[2],
   target_rank |-> RankField(line[3]),
   actual_rank |-> RankField(line[4]),
   title |-> line[5],
   artist |-> line[6],
   peak_rank |-> RankField(line[7]),
   weeks_on_chart |-> RankField(line[8])]

\* for line in raw_data: metadata_index[line[0]] = {...}
RECURSIVE MetadataIndexLoop(_, _, _)
MetadataIndexLoop(raw, k, index) ==
  IF k > Len(raw) THEN [exc |-> "none", index |-> index]
  ELSE IF RowError(raw[k], 1) # "none" THEN [exc |-> RowError(raw[k], 1)]
  ELSE MetadataIndexLoop(raw, k + 1, Put(index, raw[k][1], RowRecord(raw[k])))

_load_metadata(files, data_home) ==
  IF ~files[MetadataPath(data_home)].exists THEN Returned(None, <<>>)
  ELSE LET r == MetadataIndexLoop(RawData(files[MetadataPath(data_home)].content),
                                  1, EmptyDict)
       IN  IF r.exc # "none" THEN Raised(r.exc, <<MetadataPath(data_home)>>)
           ELSE Returned([tag |-> "dict", v |-> Put(r.index, DataHomeKey, data_home)],
                         <<MetadataPath(data_home)>>)

\* id,d,t,a,n,r,p,w: the column names
MHeader ==
  <<"i", "d", ",", "d", ",", "t", ",", "a", ",", "n", ",", "r", ",", "p", ",", "w">>

\* 3,d,56,57,T,R,47,8
MRow3 ==
  <<"3", ",", "d", ",", "5", "6", ",", "5", "7", ",", "T", ",", "R", ",", "4", "7", ",",
    "8">>

\* 3,e,,57,T,R,47,: track 3 again, target_rank and weeks_on_chart empty
MRow3Again ==
  <<"3", ",", "e", ",", ",", "5", "7", ",", "T", ",", "R", ",", "4", "7", ",">>

\* 4,d,1,2,T,R,3,4
MRow4 ==
  <<"4", ",", "d", ",", "1", ",", "2", ",", "T", ",", "R", ",", "3", ",", "4">>

\* 5,d: a row of two fields
MShort ==
  <<"5", ",", "d">>

MBlank == <<>>

MetaLineSet == {MHeader, MRow3, MRow3Again, MRow4, MShort, MBlank}

MetaContents == {Join(ls) : ls \in UNION {[1..n -> MetaLineSet] : n \in 1..MaxMetaLines}}

InitMetadata ==
  /\ fs \in {[p \in {MetadataPath(h) : h \in DataHomes} |-> Absent]}
            \cup {[p \in {MetadataPath(h) : h \in DataHomes} |-> File(c)] : c \in MetaContents}
  /\ pc = "idle"
  /\ call = [fn |-> "none"]
  /\ ret = NoValue
  /\ exc = "none"
  /\ opened = <<>>

LoadMetadata ==
  /\ pc = "idle"
  /\ \E h \in DataHomes : Finish("_load_metadata", h, _load_metadata(fs, h))

NextMetadata == LoadMetadata

SpecMetadata == InitMetadata /\ [][NextMetadata]_vars

(***************************************************************************)
(* C16: _load_metadata returns None when the index CSV does not exist;     *)
(* otherwise the first row and every empty row are skipped, and each other *)
(* row's first field is mapped to a record whose four rank fields are the  *)
(* integer of the field, or None for an empty field; the key 'data_home'   *)
(* is added, and of two rows with one track id the later one stands. A row *)
(* that lacks a field or has a rank that is no number ends the load with   *)
(* an error.                                                               *)
(***************************************************************************)
IndexContent == fs[MetadataPath(call.arg)].content

\* the rows past the first line that are not empty
DataRows ==
  LET lines == ReadLines(IndexContent)
      fields == [k \in 1..Len(lines) |-> Split(lines[k], <<",">>)]
  IN  SelectSeq([k \in 1..(Len(lines) - 1) |-> fields[k + 1]],
                LAMBDA row : row # <<<<>>>>)

IsRank(field) == field = <<>> \/ \A i \in 1..Len(field) : field[i] \in Digits

IsIndexRow(row) ==
  /\ Len(row) >= 8
  /\ \A k \in RankFields : IsRank(row[k + 1])

RankOf(field) == IF field = <<>> THEN None ELSE Some(DecimalValue(field))

\* the last row of the track id
LastRowOf(rows, id) ==
  rows[CHOOSE k \in 1..Len(rows) :
         /\ rows[k][1] = id
         /\ \A j \in (k + 1)..Len(rows) : rows[j][1] # id]

C16_IndexOfLastRows ==
  Called("_load_metadata") =>
    IF ~fs[MetadataPath(call.arg)].exists THEN exc = "none" /\ ret = None
    ELSE IF \E k \in 1..Len(DataRows) : ~IsIndexRow(DataRows[k])
    THEN exc \in {"IndexError", "ValueError"} /\ ret = NoValue
    ELSE /\ exc = "none"
         /\ ret.tag = "dict"
         /\ DOMAIN ret.v = {DataRows[k][1] : k \in 1..Len(DataRows)} \cup {DataHomeKey}
         /\ ret.v[DataHomeKey] = call.arg
         /\ \A k \in 1..Len(DataRows) :
              LET row == LastRowOf(DataRows, DataRows[k][1])
                  rec == ret.v[DataRows[k][1]]
              IN  /\ rec.chart_date = row[2]
                  /\ rec.target_rank = RankOf(row[3])
                  /\ rec.actual_rank = RankOf(row[4])
                  /\ rec.title = row[5]
                  /\ rec.artist = row[6]
                  /\ rec.peak_rank = RankOf(row[7])
                  /\ rec.weeks_on_chart = RankOf(row[8])

\* two rows of track 3 after the header: the later one stands, its empty
\* ranks are None
C16_Witness ==
  /\ Called("_load_metadata")
  /\ exc = "none"
  /\ ret.tag = "dict"
  /\ IndexContent = Join(<<MHeader, MRow3, MRow3Again>>)
  /\ ret.v[<<"3">>].chart_date = <<"e">>
  /\ ret.v[<<"3">>].target_rank = None
  /\ ret.v[<<"3">>].actual_rank = Some(57)

(***************************************************************************)
(* download: the directories of a data_home                                *)
(***************************************************************************)
\* DATASET_DIR, the directory the archives are extracted to
DatasetDir == "McGill-Billboard"

\* os.path.join(data_home, "annotations")
AnnotationsDir == "annotations"

DirNames == {AnnotationsDir, DatasetDir}

\* what a directory holds
Trees == {"tree1", "tree2", "tree3"}

\* shutil.rmtree(d)
Rmtree(files, d) == [files EXCEPT ![d] = Absent]

\* shutil.move(src, dst) to a dst that does not exist: FileNotFoundError
\* when src does not exist either
Move(files, src, dst) ==
  IF ~files[src].exists THEN [exc |-> "FileNotFoundError", files |-> files]
  ELSE [exc |-> "none", files |-> [files EXCEPT ![dst] = files[src], ![src] = Absent]]

\* download_utils.downloader(...): it may fail, and with or without a
\* failure it may have extracted an archive to DATASET_DIR
DownloaderOutcomes(files) ==
  {[exc |-> e, files |-> f] :
     e \in {"none", "DownloadError"},
     f \in {files} \cup {[files EXCEPT ![DatasetDir] = File(t)] : t \in Trees}}

\* the branch "if force_overwrite:"
ForceBranch(files) ==
  Move(IF files[AnnotationsDir].exists THEN Rmtree(files, AnnotationsDir) ELSE files,
       DatasetDir, AnnotationsDir)

\* Variant: the extracted directory always takes the place of annotations
NoForceBranch_AlwaysMove(files) ==
  IF files[DatasetDir].exists THEN Move(files, DatasetDir, AnnotationsDir)
  ELSE [exc |-> "none", files |-> files]

\* the branch "else:"
NoForceBranch(files) ==
  IF files[DatasetDir].exists
  THEN IF ~files[AnnotationsDir].exists THEN Move(files, DatasetDir, AnnotationsDir)
       ELSE [exc |-> "none", files |-> Rmtree(files, DatasetDir)]
  ELSE [exc |-> "none", files |-> files]

\* download(data_home, force_overwrite), d the outcome of the downloader
download(force_overwrite, d) ==
  IF d.exc # "none" THEN d
  ELSE IF force_overwrite THEN ForceBranch(d.files)
  ELSE NoForceBranch(d.files)

InitDownload ==
  /\ fs \in [DirNames -> {Absent} \cup {File(t) : t \in Trees}]
  /\ pc = "idle"
  /\ call = [fn |-> "none"]
  /\ ret = NoValue
  /\ exc = "none"
  /\ opened = <<>>

\* call.before and call.extracted keep the directories as they were at the
\* call and as the downloader left them
Download ==
  /\ pc = "idle"
  /\ \E force_overwrite \in BOOLEAN, d \in DownloaderOutcomes(fs) :
       /\ fs' = download(force_overwrite, d).files
       /\ exc' = download(force_overwrite, d).exc
       /\ ret' = IF download(force_overwrite, d).exc = "none" THEN None ELSE NoValue
       /\ call' = [fn |-> "download", arg |-> force_overwrite,
                   before |-> fs, extracted |-> d.files[DatasetDir]]
  /\ pc' = "done"
  /\ UNCHANGED opened

NextDownload == Download

SpecDownload == InitDownload /\ [][NextDownload]_vars

(***************************************************************************)
(* C15: download(force_overwrite=False) leaves an annotations directory    *)
(* that exists before the call unchanged, and when it returns the          *)
(* extracted McGill-Billboard directory is gone: deleted if annotations    *)
(* existed, moved to annotations if it did not.                            *)
(***************************************************************************)
C15_NoOverwriteWithoutForce ==
  (Called("download") /\ call.arg = FALSE) =>
    /\ call.before[AnnotationsDir].exists => fs[AnnotationsDir] = call.before[AnnotationsDir]
    /\ exc = "none" =>
         /\ ~fs[DatasetDir].exists
         /\ ~call.before[AnnotationsDir].exists => fs[AnnotationsDir] = call.extracted

\* annotations existed, another tree was extracted: annotations is kept and
\* the extracted directory is gone
C15_Witness ==
  /\ Called("download")
  /\ call.arg = FALSE
  /\ exc = "none"
  /\ call.before[AnnotationsDir] = File("tree1")
  /\ call.extracted = File("tree2")
  /\ fs[AnnotationsDir] = File("tree1")
  /\ ~fs[DatasetDir].exists

(***************************************************************************)
(* C21: download(force_overwrite=True) never ends, returning or raising,   *)
(* with an annotations directory that existed before the call deleted and  *)
(* not replaced: annotations is removed only in a call in which the        *)
(* extracted McGill-Billboard directory is present and takes its place.    *)
(***************************************************************************)
C21_ForceNeverLosesAnnotations ==
  (Called("download") /\ call.arg = TRUE /\ call.before[AnnotationsDir].exists) =>
    /\ fs[AnnotationsDir].exists
    /\ fs[AnnotationsDir] # call.before[AnnotationsDir] =>
         /\ call.extracted.exists
         /\ fs[AnnotationsDir] = call.extracted

(***************************************************************************)
(* scripts/make_eurovision_index.py                                        *)
(***************************************************************************)
UpperCase ==
  <<"A", "B", "C", "D", "E", "F", "G", "H", "I", "J", "K", "L", "M", "N", "O", "P", "Q",
    "R", "S", "T", "U", "V", "W", "X", "Y", "Z">>

LowerCase ==
  <<"a", "b", "c", "d", "e", "f", "g", "h", "i", "j", "k", "l", "m", "n", "o", "p", "q",
    "r", "s", "t", "u", "v", "w", "x", "y", "z">>

\* str.lower(), character by character
LowerChar(c) ==
  IF \E i \in 1..Len(UpperCase) : UpperCase[i] = c
  THEN LowerCase[CHOOSE i \in 1..Len(UpperCase) : UpperCase[i] = c]
  ELSE c

Lower(str) == [i \in 1..Len(str) |-> LowerChar(str[i])]

\* a in b, for two strings
Contains(a, b) == Find(b, a) >= 0

\* the accented letters of the input alphabet and their NFKD base letters
Accented == <<"é", "ö">>

BaseLetter == <<"e", "o">>

\* remove_accents: NFKD splits an accented letter into the base letter and
\* a combining mark, and the combining marks are dropped
RemoveAccentChar(c) ==
  IF \E i \in 1..Len(Accented) : Accented[i] = c
  THEN BaseLetter[CHOOSE i \in 1..Len(Accented) : Accented[i] = c]
  ELSE c

remove_accents(input_str) == [i \in 1..Len(input_str) |-> RemoveAccentChar(input_str[i])]

Min3(a, b, c) == IF a <= b /\ a <= c THEN a ELSE IF b <= c THEN b ELSE c

\* the cost of a substitution when ratio_calc is True
SubstitutionCost == 2

\* distance[len(s)][len(t)] of the matrix of levenshtein_ratio_and_distance
LevenshteinDistance(str, t) ==
  LET distance[i \in 0..Len(str), k \in 0..Len(t)] ==
        IF i = 0 THEN k
        ELSE IF k = 0 THEN i
        ELSE Min3(distance[i - 1, k] + 1,
                  distance[i, k - 1] + 1,
                  distance[i - 1, k - 1] + (IF str[i] = t[k] THEN 0 ELSE SubstitutionCost))
  IN  distance[Len(str), Len(t)]

\* levenshtein_ratio_and_distance(s, t, ratio_calc=True) >= 0.5, as
\* [exc, high]; with an empty s or t the loops bind no row or col and
\* distance[row][col] raises UnboundLocalError
RatioIsHigh(str, t) ==
  IF str = <<>> \/ t = <<>> THEN [exc |-> "UnboundLocalError"]
  ELSE [exc |-> "none",
        high |-> 2 * ((Len(str) + Len(t)) - LevenshteinDistance(str, t)) >= Len(str) + Len(t)]

\* the title below which find_audio passes an entry over
MinTitleLen == 2

\* find_audio, from entry k of audio_idx on: [exc, fp]
RECURSIVE FindAudioFrom(_, _, _, _, _)
FindAudioFrom(audio_idx, k, year, country, title) ==
  IF k > Len(audio_idx) THEN [exc |-> "none", fp |-> ""]
  ELSE IF year # audio_idx[k].year \/ Len(title) < MinTitleLen
       THEN FindAudioFrom(audio_idx, k + 1, year, country, title)
  ELSE LET ratio == RatioIsHigh(title, audio_idx[k].t)
       IN  IF ratio.exc # "none" THEN [exc |-> ratio.exc]
           ELSE IF ratio.high THEN [exc |-> "none", fp |-> audio_idx[k].fp]
           ELSE IF \/ Contains(Lower(title), Lower(audio_idx[k].t))
                   \/ Contains(Lower(country), Lower(audio_idx[k].country))
                THEN [exc |-> "none", fp |-> audio_idx[k].fp]
           ELSE FindAudioFrom(audio_idx, k + 1, year, country, title)

find_audio(audio_idx, year, country, title) == FindAudioFrom(audio_idx, 1, year, country, title)

MaxRows == 3

\* EUROVISION_INDEX_PATH
IndexPath == "../mirdata/indexes/eurovision_index.json"

\* os.path.join(annotations_dir, "contestants.csv")
ContestantsPath == "Eurovision/annotations/contestants.csv"

\* the mp3 files of the audio directory, in the sorted order of the listing
AudioPaths == <<"audio/1/1 ab (N).mp3", "audio/1/2 xy (S).mp3", "audio/2/3.mp3">>

\* the tuple (fp, t, year, country) make_audio_idx appends for a file: the
\* year of the directory, the name without its first word and extension,
\* the country between the brackets of its last word
AudioEntry(fp) ==
  CASE fp = AudioPaths[1] ->
         [fp |-> fp, t |-> <<"a", "b", " ", "(", "N", ")">>, year |-> 1, country |-> <<"N">>]
    [] fp = AudioPaths[2] ->
         [fp |-> fp, t |-> <<"x", "y", " ", "(", "S", ")">>, year |-> 1, country |-> <<"S">>]
    [] fp = AudioPaths[3] ->
         [fp |-> fp, t |-> <<>>, year |-> 2, country |-> <<>>]

IsListed(files, k) == files[AudioPaths[k]].exists

\* make_audio_idx: one entry per mp3 file that is there, in sorted order
make_audio_idx(files) ==
  LET listed == SelectSeq([k \in 1..Len(AudioPaths) |-> k], LAMBDA k : IsListed(files, k))
  IN  [n \in 1..Len(listed) |-> AudioEntry(AudioPaths[listed[n]])]

\* md5(file_path): the digest of the bytes of the file
md5(files, file_path) == [md5 |-> files[file_path].content]

\* "North MacedoniaNorth MacedoniaN.Macedonia"
NorthMacedoniaRaw ==
  <<"N", "o", "r", "t", "h", " ", "M", "a", "c", "e", "d", "o", "n", "i", "a", "N", "o",
    "r", "t", "h", " ", "M", "a", "c", "e", "d", "o", "n", "i", "a", "N", ".", "M", "a",
    "c", "e", "d", "o", "n", "i", "a">>

NorthMacedonia ==
  <<"N", "o", "r", "t", "h", " ", "M", "a", "c", "e", "d", "o", "n", "i", "a">>

\* the custom preprocessing of the country: the result of
\* country.replace("UK", "") is dropped, so only North Macedonia changes
Country(field) == IF Contains(NorthMacedoniaRaw, field) THEN NorthMacedonia ELSE field

\* audio_checksum before its first assignment
Unbound == [tag |-> "Unbound"]

\* the fields of a row that the loop reads: row[0], row[2], row[4]
YearField == 0

CountryField == 2

TitleField == 4

\* for row in rows: one pass of the loop body, from the state (track_id,
\* eurovision_index, audio_checksum) of the pass before
RECURSIVE IndexLoop(_, _, _, _, _, _)
IndexLoop(files, audio_idx, rows, k, index, audio_checksum) ==
  IF k > Len(rows) THEN [exc |-> "none", index |-> index]
  ELSE IF Len(rows[k]) <= YearField THEN [exc |-> "IndexError"]
  ELSE IF ~ParseInt(rows[k][YearField + 1]).ok THEN [exc |-> "ValueError"]
  ELSE IF Len(rows[k]) <= TitleField THEN [exc |-> "IndexError"]
  ELSE LET year == ParseInt(rows[k][YearField + 1]).val
           country == Country(rows[k][CountryField + 1])
           title == remove_accents(rows[k][TitleField + 1])
           found == find_audio(audio_idx, year, country, title)
           checksum == IF found.fp # "" THEN md5(files, found.fp) ELSE audio_checksum
       IN  IF found.exc # "none" THEN [exc |-> found.exc]
           ELSE IF checksum = Unbound THEN [exc |-> "UnboundLocalError"]
           ELSE IndexLoop(files, audio_idx, rows, k + 1,
                          Put(index, k - 1, [audio |-> <<found.fp, checksum>>]),
                          checksum)

\* json.dump(eurovision_index): the int keys become strings, the tuples lists
JsonDump(index) ==
  [key \in {ToString(i) : i \in DOMAIN index} |->
     index[CHOOSE i \in DOMAIN index : ToString(i) = key]]

\* make_eurovision_index(data_path): [exc, files]; next(rows) raises
\* StopIteration on a CSV without a row
make_eurovision_index(files) ==
  LET rows == CsvRows(files[ContestantsPath].content)
      r == IndexLoop(files, make_audio_idx(files), Tail(rows), 1, EmptyDict, Unbound)
  IN  IF rows = <<>> THEN [exc |-> "StopIteration", files |-> files]
      ELSE IF r.exc # "none" THEN [exc |-> r.exc, files |-> files]
      ELSE [exc |-> "none",
            files |-> [files EXCEPT ![IndexPath] = File(JsonDump(r.index))]]

\* y,,c,,t: the column names
EHeader ==
  <<"y", ",", ",", "c", ",", ",", "t">>

\* 1,,N,,ab: the song of the first file
EAb ==
  <<"1", ",", ",", "N", ",", ",", "a", "b">>

\* 1,,S,,xy: the song of the second file
EXy ==
  <<"1", ",", ",", "S", ",", ",", "x", "y">>

\* 1,,Q,,é: a title of one letter
EShort ==
  <<"1", ",", ",", "Q", ",", ",", "é">>

\* 3,,N,,ab: a year without audio
EOtherYear ==
  <<"3", ",", ",", "N", ",", ",", "a", "b">>

\* 2,,N,,ab: the year of the file without a title
EUntitledYear ==
  <<"2", ",", ",", "N", ",", ",", "a", "b">>

ContestantRows == {EAb, EXy, EShort, EOtherYear, EUntitledYear}

ContestantFiles ==
  {File(<<>>), File(EHeader)} \cup
  {File(Join(<<EHeader>> \o ls)) : ls \in UNION {[1..n -> ContestantRows] : n \in 1..MaxRows}}

\* the bytes of the audio files
AudioContent(fp) == "bytes of " \o fp

AudioFiles ==
  {[k \in 1..Len(AudioPaths) |-> IF k \in there THEN File(AudioContent(AudioPaths[k])) ELSE Absent] :
     there \in SUBSET (1..Len(AudioPaths))}

EurovisionPaths == {AudioPaths[k] : k \in 1..Len(AudioPaths)} \cup {ContestantsPath, IndexPath}

InitEurovision ==
  /\ fs \in {[p \in EurovisionPaths |->
                IF p = ContestantsPath THEN c
                ELSE IF p = IndexPath THEN Absent
                ELSE a[CHOOSE k \in 1..Len(AudioPaths) : AudioPaths[k] = p]] :
               c \in ContestantFiles, a \in AudioFiles}
  /\ pc = "idle"
  /\ call = [fn |-> "none"]
  /\ ret = NoValue
  /\ exc = "none"
  /\ opened = <<>>

\* call.before keeps the files as they were at the call
MakeEurovisionIndex ==
  /\ pc = "idle"
  /\ fs' = make_eurovision_index(fs).files
  /\ exc' = make_eurovision_index(fs).exc
  /\ ret' = IF make_eurovision_index(fs).exc = "none" THEN None ELSE NoValue
  /\ call' = [fn |-> "make_eurovision_index", arg |-> None, before |-> fs]
  /\ pc' = "done"
  /\ UNCHANGED opened

NextEurovision == MakeEurovisionIndex

SpecEurovision == InitEurovision /\ [][NextEurovision]_vars

(***************************************************************************)
(* C22: make_eurovision_index, on any rows after the header, writes an     *)
(* index and does not fail, also when the first row has no audio match;    *)
(* the checksum of every entry with an audio file is the md5 of that file, *)
(* and an entry without an audio file carries no md5 of any audio file.    *)
(* (Audio files whose title is empty are left aside.)                      *)
(***************************************************************************)
HasHeader == CsvRows(call.before[ContestantsPath].content) # <<>>

AllAudioTitled ==
  \A n \in 1..Len(make_audio_idx(call.before)) : make_audio_idx(call.before)[n].t # <<>>

ListedAudio == {AudioPaths[k] : k \in {j \in 1..Len(AudioPaths) : IsListed(call.before, j)}}

C22_ChecksumsAreOwn ==
  (Called("make_eurovision_index") /\ HasHeader /\ AllAudioTitled) =>
    /\ exc = "none"
    /\ fs[IndexPath].exists
    /\ \A key \in DOMAIN fs[IndexPath].content :
         LET audio == fs[IndexPath].content[key].audio
         IN  IF audio[1] # "" THEN audio[2] = md5(call.before, audio[1])
             ELSE \A fp \in ListedAudio : audio[2] # md5(call.before, fp)

====
